---------------------------- MODULE Spec2Model ----------------------------
(***************************************************************************)
(* A model of the linux-keyutils keyring store: the description builder,   *)
(* the credential record (Cred / KeyutilsCredential) and its set / get /   *)
(* delete operations against the kernel key facility, and the translation  *)
(* of kernel errors.                                                       *)
(*                                                                         *)
(* Strings are sequences of one-character strings, secrets are sequences   *)
(* of bytes.  An Option is a sequence of length 0 (None) or 1 (Some).      *)
(***************************************************************************)
EXTENDS Integers, Sequences, FiniteSets, TLC

VARIABLES
    separate,   \* TRUE iff every thread works on a description of its own
    store,      \* the Store: [delimiters, service_no_divider]
    sessionSt,  \* "ok", or the kernel error resolving the session keyring gives
    persistUp,  \* TRUE iff get_persistent succeeds on this platform
    pLinked,    \* TRUE iff the persistent keyring is linked into the session keyring
    keys,       \* key serial -> [desc, val, st]
    ringS,      \* session keyring: the serials of the keys it links
    ringP,      \* persistent keyring: the serials of the keys it links
    cred,       \* thread -> Option of the record the thread holds
    pc,         \* thread -> position inside the operation it runs
    key,        \* thread -> the local `key` of get / set / remove
    arg,        \* thread -> the secret of the set in flight
    res,        \* the result of the call that returned in the last step, if any
    expect,     \* thread -> what the call in flight started from (history)
    stable,     \* <<description, secret, thread>> of the last undisturbed set (history)
    deleted,    \* <<description, thread, under a get>> of the deletes with no set
                \* since; under a get: a get in flight held the key (history)
    envLeft,    \* external events the environment may still produce
    now,        \* the reading of the system clock
    stores      \* the Store instances constructed, in the order of construction

vars == <<separate, store, sessionSt, persistUp, pLinked, keys, ringS, ringP,
          cred, pc, key, arg, res, expect, stable, deleted, envLeft, now, stores>>


---------------------------------------------------------------------------
(* Bounds *)

\* longest service, user and divider string drawn for a build
MaxLen == 2
\* number of key serials the kernel hands out at one time (the key quota)
MaxKeys == 2
\* number of external events (revoke, expire, setperm, re-login, ...)
MaxEnv == 1
\* number of Store instances constructed
MaxStores == 2
\* the system clock reads -MaxClock .. MaxClock
MaxClock == 2

Threads == {"t1", "t2"}
Alphabet == {"a", "@"}

None == <<>>
Some(v) == <<v>>
IsSome(o) == Len(o) = 1
Unwrap(o) == o[1]

---------------------------------------------------------------------------
(* Strings *)

RECURSIVE StrsOfLen(_)
StrsOfLen(n) ==
    IF n = 0 THEN {<<>>}
    ELSE {Append(s, c) : s \in StrsOfLen(n - 1), c \in Alphabet}

StrsUpTo(n) == UNION {StrsOfLen(k) : k \in 0..n}

\* str::contains: the needle occurs as a contiguous substring
ContainsNoEmptyNeedle(hay, needle) ==
    /\ needle # <<>>
    /\ \E i \in 1..(Len(hay) - Len(needle) + 1) :
          SubSeq(hay, i, i + Len(needle) - 1) = needle

Contains(hay, needle) ==
    \E i \in 1..(Len(hay) - Len(needle) + 1) :
        SubSeq(hay, i, i + Len(needle) - 1) = needle

KeyringPrefix == <<"k", "e", "y", "r", "i", "n", "g", ":">>
LegacyPrefix == <<"k", "e", "y", "r", "i", "n", "g", "-", "r", "s", ":">>
At == <<"@">>

---------------------------------------------------------------------------
(* Errors *)

\* linux_keyutils::KeyError
KernelErrors ==
    {"AccessDenied", "QuotaExceeded", "BadAddress", "InvalidArguments", "KeyExpired",
     "KeyRevoked", "KeyRejected", "KeyringDoesNotExist", "KeyDoesNotExist", "OutOfMemory",
     "InvalidDescription", "InvalidIdentifier", "OperationNotSupported", "WriteError",
     "Unknown"}

NoErr == [kind |-> "none", arg |-> "none"]
Err(kind, a) == [kind |-> kind, arg |-> a]
NoEntry == Err("NoEntry", "none")
Invalid(field) == Err("Invalid", field)
NoStorageAccess(cause) == Err("NoStorageAccess", cause)
PlatformFailure(cause) == Err("PlatformFailure", cause)

\* a translation that passes KeyDoesNotExist on as a platform failure
TranslateMissingAsFailure(e) ==
    CASE e \in {"KeyRevoked", "KeyExpired"} -> NoEntry
      [] e = "AccessDenied" -> NoStorageAccess(e)
      [] e = "InvalidDescription" -> Invalid("description")
      [] e = "InvalidArguments" -> Invalid("password")
      [] OTHER -> PlatformFailure(e)

\* a translation that passes KeyRevoked on as a platform failure
TranslateRevokedAsFailure(e) ==
    CASE e \in {"KeyDoesNotExist", "KeyExpired"} -> NoEntry
      [] e = "AccessDenied" -> NoStorageAccess(e)
      [] e = "InvalidDescription" -> Invalid("description")
      [] e = "InvalidArguments" -> Invalid("password")
      [] OTHER -> PlatformFailure(e)

\* a lookup failure of AccessDenied folded into NoEntry with the other three
TranslateDeniedAsNoEntry(e) ==
    CASE e \in {"KeyDoesNotExist", "KeyRevoked", "KeyExpired", "AccessDenied"} -> NoEntry
      [] e = "InvalidDescription" -> Invalid("description")
      [] e = "InvalidArguments" -> Invalid("password")
      [] OTHER -> PlatformFailure(e)

\* a translation that reports every error it does not list as NoEntry
TranslateOtherAsNoEntry(e) ==
    CASE e = "AccessDenied" -> NoStorageAccess(e)
      [] e = "InvalidDescription" -> Invalid("description")
      [] e = "InvalidArguments" -> Invalid("password")
      [] OTHER -> NoEntry

\* impl From<KeyStoreError> for keyring_core::Error
Translate(e) ==
    CASE e \in {"KeyDoesNotExist", "KeyRevoked", "KeyExpired"} -> NoEntry
      [] e = "AccessDenied" -> NoStorageAccess(e)
      [] e = "InvalidDescription" -> Invalid("description")
      [] e = "InvalidArguments" -> Invalid("password")
      [] OTHER -> PlatformFailure(e)

\* the legacy crate's translation into keyring::Error (section 4.4 of the
\* specification, access denied surfacing as no-entry)
LegacyTranslate(e) ==
    CASE e \in {"KeyDoesNotExist", "KeyRevoked", "KeyExpired", "AccessDenied"} -> NoEntry
      [] e = "InvalidDescription" -> Invalid("description")
      [] e = "InvalidArguments" -> Invalid("password")
      [] OTHER -> PlatformFailure(e)

TranslateFor(variant, e) ==
    IF variant = "store" THEN Translate(e) ELSE LegacyTranslate(e)

---------------------------------------------------------------------------
(* Description builder *)

\* the format string with the service and the user in each other's place
Concat5ServiceFirst(a, b, c, d, e) == a \o d \o c \o b \o e

Concat5(a, b, c, d, e) == a \o b \o c \o d \o e

\* the check `service_no_dividers && service.contains(divider)` with an
\* empty divider never matching
ServiceRejectedNoEmptyDivider(delimiters, service_no_dividers, service) ==
    service_no_dividers /\ ContainsNoEmptyNeedle(service, delimiters[2])

ServiceRejected(delimiters, service_no_dividers, service) ==
    service_no_dividers /\ Contains(service, delimiters[2])

\* a builder that keeps the specifiers of a record with an explicit description
DescribeKeepingSpecifiers(target, delimiters, service_no_dividers, service, user) ==
    LET rejected == ~IsSome(target)
                    /\ ServiceRejected(delimiters, service_no_dividers, service)
        description ==
            IF IsSome(target) THEN Unwrap(target)
            ELSE Concat5(delimiters[1], user, delimiters[2], service, delimiters[3])
    IN  IF rejected
        THEN [err |-> Invalid("service"), description |-> <<>>, specifiers |-> None]
        ELSE IF description = <<>>
        THEN [err |-> Invalid("description"), description |-> <<>>, specifiers |-> None]
        ELSE [err |-> NoErr, description |-> description,
              specifiers |-> Some(<<user, service>>)]

\* the first half of Cred::build_from_specifiers: the description and the
\* specifiers, or the validation error
Describe(target, delimiters, service_no_dividers, service, user) ==
    LET rejected == ~IsSome(target)
                    /\ ServiceRejected(delimiters, service_no_dividers, service)
        description ==
            IF IsSome(target) THEN Unwrap(target)
            ELSE Concat5(delimiters[1], user, delimiters[2], service, delimiters[3])
        specifiers ==
            IF IsSome(target) THEN None ELSE Some(<<user, service>>)
    IN  IF rejected
        THEN [err |-> Invalid("service"), description |-> <<>>, specifiers |-> None]
        ELSE IF description = <<>>
        THEN [err |-> Invalid("description"), description |-> <<>>, specifiers |-> None]
        ELSE [err |-> NoErr, description |-> description, specifiers |-> specifiers]

\* the description match of KeyutilsCredential::new; the error is the
\* kernel error the constructor wraps
LegacyDescribe(target, service, user) ==
    IF IsSome(target)
    THEN IF Unwrap(target) = <<>>
         THEN [kerr |-> "InvalidArguments", description |-> <<>>]
         ELSE [kerr |-> "none", description |-> Unwrap(target)]
    ELSE [kerr |-> "none",
          description |-> Concat5(LegacyPrefix, user, At, service, <<>>)]


---------------------------------------------------------------------------
(* The kernel key facility: keys, the session and the persistent keyring *)

KeyIds == 1..MaxKeys
FreeKey == [desc |-> <<>>, val |-> <<>>, st |-> "free"]

\* serials some call in flight still holds
Held == {key[t] : t \in Threads}

\* the key a keyring links under a description, or 0
KeyIn(ring, d) ==
    IF \E k \in ring : keys[k].desc = d
    THEN CHOOSE k \in ring : keys[k].desc = d
    ELSE 0

\* an invalidate, revoke or expiry that leaves the key as it is
DeadLeftValid(ks, k, st) == ks

\* key k leaves the valid state; its payload cannot be read again and is
\* not kept (an update of an expired key gives it a new one)
Dead(ks, k, st) == [ks EXCEPT ![k].st = st, ![k].val = <<>>]

\* a key no keyring links is destroyed
Reap(ks, rs, rp) ==
    [k \in KeyIds |-> IF k \in rs \cup rp THEN ks[k] ELSE FreeKey]

\* the error of using a serial (key_validate and the permission check)
ValidateErr(k) ==
    CASE k = 0 -> "KeyDoesNotExist"
      [] keys[k].st \in {"free", "invalid"} -> "KeyDoesNotExist"
      [] keys[k].st = "revoked" -> "KeyRevoked"
      [] keys[k].st = "expired" -> "KeyExpired"
      [] keys[k].st = "denied" -> "AccessDenied"
      [] OTHER -> "none"

\* the error a search remembers when it skips a matching key
SkipErr(k) ==
    CASE keys[k].st \in {"invalid", "revoked"} -> "KeyRevoked"
      [] keys[k].st = "expired" -> "KeyExpired"
      [] keys[k].st = "denied" -> "AccessDenied"
      [] OTHER -> "none"

\* a search that does not descend into the persistent keyring
SearchSessionOnly(d) ==
    LET c1 == KeyIn(ringS, d)
    IN  IF sessionSt # "ok" THEN [err |-> sessionSt, key |-> 0]
        ELSE IF c1 # 0 /\ keys[c1].st = "valid" THEN [err |-> "none", key |-> c1]
        ELSE IF c1 # 0 THEN [err |-> SkipErr(c1), key |-> 0]
        ELSE [err |-> "KeyDoesNotExist", key |-> 0]

\* KeyRing::search from the session keyring: the keys it links first, then
\* the keys of the persistent keyring when that is linked beneath it
Search(d) ==
    LET c1 == KeyIn(ringS, d)
        c2 == IF pLinked THEN KeyIn(ringP, d) ELSE 0
    IN  IF sessionSt # "ok" THEN [err |-> sessionSt, key |-> 0]
        ELSE IF c1 # 0 /\ keys[c1].st = "valid" THEN [err |-> "none", key |-> c1]
        ELSE IF c2 # 0 /\ keys[c2].st = "valid" THEN [err |-> "none", key |-> c2]
        ELSE IF c2 # 0 THEN [err |-> SkipErr(c2), key |-> 0]
        ELSE IF c1 # 0 THEN [err |-> SkipErr(c1), key |-> 0]
        ELSE [err |-> "KeyDoesNotExist", key |-> 0]

\* the serial of a new key: the kernel takes any unused one, here the lowest
\* or the highest by the length of the description
NewSerial(d, free) ==
    IF Len(d) % 2 = 1
    THEN CHOOSE k \in free : \A j \in free : k <= j
    ELSE CHOOSE k \in free : \A j \in free : k >= j

\* an add_key that links a new key beside the dead key of the description
AddKeyKeepingOld(d, v) ==
    LET c == KeyIn(ringS, d)
        free == {k \in KeyIds : keys[k].st = "free" /\ k \notin Held}
        n == NewSerial(d, free)
        same == [err |-> "none", key |-> 0, keys |-> keys, ringS |-> ringS]
    IN  IF sessionSt # "ok" THEN [same EXCEPT !.err = sessionSt]
        ELSE IF v = <<>> THEN [same EXCEPT !.err = "InvalidArguments"]
        ELSE IF c # 0 /\ keys[c].st = "denied" THEN [same EXCEPT !.err = "AccessDenied"]
        ELSE IF c # 0 /\ keys[c].st \in {"valid", "expired"}
        THEN [same EXCEPT !.key = c,
                          !.keys = [keys EXCEPT ![c] = [desc |-> d, val |-> v, st |-> "valid"]]]
        ELSE IF free = {} THEN [same EXCEPT !.err = "QuotaExceeded"]
        ELSE [err |-> "none", key |-> n, ringS |-> ringS \cup {n},
              keys |-> [keys EXCEPT ![n] = [desc |-> d, val |-> v, st |-> "valid"]]]

\* KeyRing::add_key on the session keyring: update the key the keyring links
\* under the description, or create one and link it in its place
AddKey(d, v) ==
    LET c == KeyIn(ringS, d)
        free == {k \in KeyIds : keys[k].st = "free" /\ k \notin Held}
        n == NewSerial(d, free)
        same == [err |-> "none", key |-> 0, keys |-> keys, ringS |-> ringS]
    IN  IF sessionSt # "ok" THEN [same EXCEPT !.err = sessionSt]
        ELSE IF v = <<>> THEN [same EXCEPT !.err = "InvalidArguments"]
        ELSE IF c # 0 /\ keys[c].st = "denied" THEN [same EXCEPT !.err = "AccessDenied"]
        ELSE IF c # 0 /\ keys[c].st \in {"valid", "expired"}
        THEN [same EXCEPT !.key = c,
                          !.keys = [keys EXCEPT ![c] = [desc |-> d, val |-> v, st |-> "valid"]]]
        ELSE IF free = {} THEN [same EXCEPT !.err = "QuotaExceeded"]
        ELSE LET rs == (ringS \ {c}) \cup {n}
             IN  [err |-> "none", key |-> n, ringS |-> rs,
                  keys |-> Reap([keys EXCEPT ![n] = [desc |-> d, val |-> v, st |-> "valid"]],
                                rs, ringP)]

\* a link that leaves the keyring with key k alone
LinkIntoAlone(ring, k) == {k}

\* a link_key that leaves the keyring as it is
LinkIntoNothing(ring, k) == ring

\* a keyring with key k linked, in the place of any key of the same description
LinkInto(ring, k) == {j \in ring : keys[j].desc # keys[k].desc} \cup {k}

\* a read into a buffer of one byte
ReadKeyTruncated(k) ==
    IF ValidateErr(k) # "none" THEN [err |-> ValidateErr(k), val |-> <<>>]
    ELSE [err |-> "none", val |-> SubSeq(keys[k].val, 1, 1)]

\* a read that gives an empty buffer for a key that cannot be read
ReadKeyOrDefault(k) ==
    IF ValidateErr(k) # "none" THEN [err |-> "none", val |-> <<>>]
    ELSE [err |-> "none", val |-> keys[k].val]

\* Key::read_to_vec
ReadKey(k) ==
    IF ValidateErr(k) # "none" THEN [err |-> ValidateErr(k), val |-> <<>>]
    ELSE [err |-> "none", val |-> keys[k].val]

---------------------------------------------------------------------------
(* Results and history *)

NoRes == [t |-> "none", op |-> "none", ok |-> FALSE, val |-> <<>>, err |-> NoErr, cause |-> "none",
          stage |-> "none", desc |-> <<>>, in |-> <<>>, exp |-> None, by |-> "none",
          del |-> FALSE, delBy |-> "none", delGet |-> FALSE, fresh |-> FALSE, prev |-> None]
NoExpect == [val |-> None, by |-> "none", del |-> FALSE, delBy |-> "none", delGet |-> FALSE,
             prev |-> None]

HasCred(t) == IsSome(cred[t])
CredOf(t) == Unwrap(cred[t])
DescOf(t) == CredOf(t).description
InFlightOn(u, ds) == pc[u] # "idle" /\ HasCred(u) /\ DescOf(u) \in ds

StableOf(d) ==
    IF \E p \in stable : p[1] = d
    THEN Some((CHOOSE p \in stable : p[1] = d)[2])
    ELSE None
StableBy(d) ==
    IF \E p \in stable : p[1] = d
    THEN (CHOOSE p \in stable : p[1] = d)[3]
    ELSE "none"
DeletedUnderGet(d) == \E p \in deleted : p[1] = d /\ p[3]
DeletedBy(d) ==
    IF \E p \in deleted : p[1] = d
    THEN (CHOOSE p \in deleted : p[1] = d)[2]
    ELSE "none"

\* the result of an operation of thread t on its record
OpRes(t, op, ok, val, kerr, stage, in, ex) ==
    [t |-> t, op |-> op, ok |-> ok, val |-> val,
     err |-> IF kerr = "none" THEN NoErr ELSE TranslateFor(CredOf(t).variant, kerr),
     cause |-> kerr, stage |-> stage, desc |-> DescOf(t), in |-> in,
     exp |-> ex.val, by |-> ex.by, del |-> ex.del, delBy |-> ex.delBy,
     delGet |-> ex.delGet,
     fresh |-> \A k \in KeyIds : keys[k].desc # DescOf(t),
     prev |-> ex.prev]

\* thread t returns r to its caller
Finish(t, r) ==
    /\ pc' = [pc EXCEPT ![t] = "idle"]
    /\ key' = [key EXCEPT ![t] = 0]
    /\ arg' = [arg EXCEPT ![t] = <<>>]
    /\ res' = r

\* thread t goes on to step p holding serial k (and, in set, the secret a)
Goto(t, p, k, a) ==
    /\ pc' = [pc EXCEPT ![t] = p]
    /\ key' = [key EXCEPT ![t] = k]
    /\ arg' = [arg EXCEPT ![t] = a]
    /\ res' = NoRes

\* the other calls in flight on descriptions ds lose what they started from
Disturb(ex, t, ds, clearDel) ==
    [u \in Threads |->
        IF u # t /\ InFlightOn(u, ds)
        THEN [val |-> None, by |-> "none", prev |-> ex[u].prev,
              del |-> IF clearDel THEN FALSE ELSE ex[u].del,
              delBy |-> IF clearDel THEN "none" ELSE ex[u].delBy,
              delGet |-> IF clearDel THEN FALSE ELSE ex[u].delGet]
        ELSE ex[u]]

AllDescs == {keys[k].desc : k \in KeyIds} \cup {DescOf(u) : u \in {v \in Threads : HasCred(v)}}

\* thread t may start a call: always when calls run concurrently, else only
\* when no call of another thread is in flight
CanStart(t, conc) ==
    /\ res.op = "none"
    /\ pc[t] = "idle"
    /\ conc \/ \A u \in Threads : pc[u] = "idle"

Minus(st, ds) == {p \in st : p[1] \notin ds}

---------------------------------------------------------------------------
(* Building a record *)

BuildRes(t, ok, err, cause, stage, desc, in) ==
    [NoRes EXCEPT !.t = t, !.op = "build", !.ok = ok, !.err = err, !.cause = cause,
                  !.stage = stage, !.desc = desc, !.in = in]

\* a build that, as get does, links the key it finds into the session keyring
BuildFromSpecifiersLinking(t, target, service, user, conc) ==
    LET d == Describe(target, store.delimiters, store.service_no_divider, service, user)
        s == Search(d.description)
    IN  /\ CanStart(t, conc)
        /\ d.err = NoErr
        /\ sessionSt = "ok"
        /\ cred' = [cred EXCEPT ![t] =
                       Some([variant |-> "store", description |-> d.description,
                             specifiers |-> d.specifiers,
                             persistent |-> IF persistUp THEN "live" ELSE "none"])]
        /\ pLinked' = (pLinked \/ persistUp)
        /\ ringS' = IF s.err = "none" THEN LinkInto(ringS, s.key) ELSE ringS
        /\ Finish(t, BuildRes(t, TRUE, NoErr, "none", "done", d.description,
                              <<"store", target, service, user>>))
        /\ UNCHANGED <<separate, store, now, stores, sessionSt, persistUp, keys, ringP, expect,
                       stable, deleted, envLeft>>

\* Store::build / Cred::build_from_specifiers
BuildFromSpecifiers(t, target, service, user, conc) ==
    LET d == Describe(target, store.delimiters, store.service_no_divider, service, user)
        in == <<"store", target, service, user>>
    IN  /\ CanStart(t, conc)
        /\ IF d.err # NoErr
           THEN /\ Finish(t, BuildRes(t, FALSE, d.err, "none", "validate", <<>>, in))
                /\ cred' = [cred EXCEPT ![t] = None]
                /\ UNCHANGED pLinked
           ELSE IF sessionSt # "ok"
           THEN /\ Finish(t, BuildRes(t, FALSE, NoStorageAccess(sessionSt), sessionSt,
                                      "session", <<>>, in))
                /\ cred' = [cred EXCEPT ![t] = None]
                /\ UNCHANGED pLinked
           ELSE /\ cred' = [cred EXCEPT ![t] =
                       Some([variant |-> "store", description |-> d.description,
                             specifiers |-> d.specifiers,
                             persistent |-> IF persistUp THEN "live" ELSE "none"])]
                /\ pLinked' = (pLinked \/ persistUp)
                /\ Finish(t, BuildRes(t, TRUE, NoErr, "none", "done", d.description, in))
        /\ UNCHANGED <<separate, store, now, stores, sessionSt, persistUp, keys, ringS, ringP, expect,
                       stable, deleted, envLeft>>

\* KeyutilsCredentialBuilder::build / KeyutilsCredential::new
KeyutilsCredentialNew(t, target, service, user, conc) ==
    LET d == LegacyDescribe(target, service, user)
        in == <<"legacy", target, service, user>>
    IN  /\ CanStart(t, conc)
        /\ IF sessionSt # "ok"
           THEN /\ Finish(t, BuildRes(t, FALSE, LegacyTranslate(sessionSt), sessionSt,
                                      "session", <<>>, in))
                /\ cred' = [cred EXCEPT ![t] = None]
                /\ UNCHANGED pLinked
           ELSE /\ pLinked' = (pLinked \/ persistUp)
                /\ IF d.kerr # "none"
                   THEN /\ Finish(t, BuildRes(t, FALSE, LegacyTranslate(d.kerr), d.kerr,
                                              "validate", <<>>, in))
                        /\ cred' = [cred EXCEPT ![t] = None]
                   ELSE /\ cred' = [cred EXCEPT ![t] =
                               Some([variant |-> "legacy", description |-> d.description,
                                     specifiers |-> None,
                                     persistent |-> IF persistUp THEN "live" ELSE "none"])]
                        /\ Finish(t, BuildRes(t, TRUE, NoErr, "none", "done",
                                              d.description, in))
        /\ UNCHANGED <<separate, store, now, stores, sessionSt, persistUp, keys, ringS, ringP, expect,
                       stable, deleted, envLeft>>

---------------------------------------------------------------------------
(* set_secret *)

\* a record that takes the persistent keyring as bound whether it is or not
HasPersistentAlways(t) == TRUE

\* `if let Some(keyring) = &self.persistent`
HasPersistent(t) == CredOf(t).persistent # "none"

\* the error of linking serial k into a keyring of the record of thread t
LinkErr(t, ring, k) ==
    IF ring = "session" /\ sessionSt # "ok" THEN sessionSt
    ELSE IF ring = "persistent" /\ CredOf(t).persistent = "stale" THEN "KeyExpired"
    ELSE ValidateErr(k)

\* an emptiness test that never finds a secret empty
SecretNeverEmpty(secret) == FALSE

\* secret.is_empty()
SecretIsEmpty(secret) == secret = <<>>

\* the secret a search for description d would lead to, if any
PriorValue(d) ==
    LET s == Search(d)
    IN  IF s.err = "none" THEN Some(keys[s.key].val) ELSE None

\* Cred::set_secret up to and including add_key of Cred::set; the result of
\* a set that succeeds names in its field by the record whose earlier set it
\* overwrote, the result of every set in its field prev the secret that could
\* be found when the set started
SetSecret(t, secret, conc) ==
    LET d == DescOf(t)
        a == AddKey(d, secret)
    IN  /\ CanStart(t, conc) /\ HasCred(t)
        /\ IF SecretIsEmpty(secret)
           THEN /\ Finish(t, [OpRes(t, "set", FALSE, <<>>, "none", "validate", secret,
                                    [NoExpect EXCEPT !.prev = PriorValue(d)])
                              EXCEPT !.err = Invalid("secret")])
                /\ UNCHANGED <<keys, ringS, expect, stable, deleted>>
           ELSE IF a.err # "none"
           THEN /\ Finish(t, OpRes(t, "set", FALSE, <<>>, a.err, "add", secret,
                                   [NoExpect EXCEPT !.prev = PriorValue(d)]))
                /\ UNCHANGED <<keys, ringS, expect, stable, deleted>>
           ELSE /\ keys' = a.keys /\ ringS' = a.ringS
                /\ deleted' = Minus(deleted, {d})
                /\ IF ~HasPersistent(t)
                   THEN /\ stable' = Minus(stable, {d}) \cup {<<d, secret, t>>}
                        /\ expect' = Disturb(expect, t, {d}, TRUE)
                        /\ Finish(t, OpRes(t, "set", TRUE, <<>>, "none", "done", secret,
                                           [NoExpect EXCEPT !.by = StableBy(d),
                                                            !.prev = PriorValue(d)]))
                   ELSE /\ stable' = Minus(stable, {d})
                        /\ expect' = [Disturb(expect, t, {d}, TRUE) EXCEPT
                                         ![t] = [NoExpect EXCEPT !.val = Some(secret),
                                                                 !.by = StableBy(d),
                                                                 !.prev = PriorValue(d)]]
                        /\ Goto(t, "set_link", a.key, secret)
        /\ UNCHANGED <<separate, store, now, stores, sessionSt, persistUp, pLinked, ringP, cred, envLeft>>

\* Cred::set: keyring.link_key(key) on the persistent keyring
SetLink(t) ==
    LET d == DescOf(t)
        e == LinkErr(t, "persistent", key[t])
    IN  /\ res.op = "none" /\ pc[t] = "set_link"
        /\ IF e # "none"
           THEN /\ Finish(t, OpRes(t, "set", FALSE, <<>>, e, "link_p", arg[t],
                                   [NoExpect EXCEPT !.prev = expect[t].prev]))
                /\ UNCHANGED <<keys, ringP, stable>>
           ELSE /\ ringP' = LinkInto(ringP, key[t])
                /\ keys' = Reap(keys, ringS, ringP')
                /\ stable' = IF expect[t].val = Some(arg[t])
                             THEN Minus(stable, {d}) \cup {<<d, arg[t], t>>}
                             ELSE stable
                /\ Finish(t, OpRes(t, "set", TRUE, <<>>, "none", "done", arg[t],
                                   [NoExpect EXCEPT !.by = expect[t].by,
                                                    !.prev = expect[t].prev]))
        /\ expect' = [expect EXCEPT ![t] = NoExpect]
        /\ UNCHANGED <<separate, store, now, stores, sessionSt, persistUp, pLinked, ringS, cred, deleted, envLeft>>

---------------------------------------------------------------------------
(* get_secret *)

\* what a call on description d starts from
StartFrom(d) ==
    [val |-> StableOf(d), by |-> StableBy(d),
     del |-> DeletedBy(d) # "none", delBy |-> DeletedBy(d), delGet |-> DeletedUnderGet(d),
     prev |-> None]

\* Cred::get: self.session.search(&self.description)
GetSearch(t, conc) ==
    LET d == DescOf(t)
        s == Search(d)
    IN  /\ CanStart(t, conc) /\ HasCred(t)
        /\ IF s.err # "none"
           THEN /\ Finish(t, OpRes(t, "get", FALSE, <<>>, s.err, "search", <<>>,
                                   StartFrom(d)))
                /\ UNCHANGED expect
           ELSE /\ Goto(t, "get_link_s", s.key, <<>>)
                /\ expect' = [expect EXCEPT ![t] = StartFrom(d)]
        /\ UNCHANGED <<separate, store, now, stores, sessionSt, persistUp, pLinked, keys, ringS, ringP, cred,
                       stable, deleted, envLeft>>

\* Cred::get: self.session.link_key(key)
GetLinkSession(t) ==
    LET e == LinkErr(t, "session", key[t])
    IN  /\ res.op = "none" /\ pc[t] = "get_link_s"
        /\ IF e # "none"
           THEN /\ Finish(t, OpRes(t, "get", FALSE, <<>>, e, "link_s", <<>>, expect[t]))
                /\ expect' = [expect EXCEPT ![t] = NoExpect]
                /\ UNCHANGED <<keys, ringS>>
           ELSE /\ ringS' = LinkInto(ringS, key[t])
                /\ keys' = Reap(keys, ringS', ringP)
                /\ Goto(t, IF HasPersistent(t) THEN "get_link_p" ELSE "get_read",
                        key[t], <<>>)
                /\ UNCHANGED expect
        /\ UNCHANGED <<separate, store, now, stores, sessionSt, persistUp, pLinked, ringP, cred,
                       stable, deleted, envLeft>>

\* Cred::get: keyring.link_key(key) on the persistent keyring
GetLinkPersistent(t) ==
    LET e == LinkErr(t, "persistent", key[t])
    IN  /\ res.op = "none" /\ pc[t] = "get_link_p"
        /\ IF e # "none"
           THEN /\ Finish(t, OpRes(t, "get", FALSE, <<>>, e, "link_p", <<>>, expect[t]))
                /\ expect' = [expect EXCEPT ![t] = NoExpect]
                /\ UNCHANGED <<keys, ringP>>
           ELSE /\ ringP' = LinkInto(ringP, key[t])
                /\ keys' = Reap(keys, ringS, ringP')
                /\ Goto(t, "get_read", key[t], <<>>)
                /\ UNCHANGED expect
        /\ UNCHANGED <<separate, store, now, stores, sessionSt, persistUp, pLinked, ringS, cred,
                       stable, deleted, envLeft>>

\* Cred::get: key.read_to_vec()
GetRead(t) ==
    LET r == ReadKey(key[t])
    IN  /\ res.op = "none" /\ pc[t] = "get_read"
        /\ Finish(t, OpRes(t, "get", r.err = "none", r.val, r.err,
                           IF r.err = "none" THEN "done" ELSE "read", <<>>, expect[t]))
        /\ expect' = [expect EXCEPT ![t] = NoExpect]
        /\ UNCHANGED <<separate, store, now, stores, sessionSt, persistUp, pLinked, keys, ringS, ringP, cred,
                       stable, deleted, envLeft>>

---------------------------------------------------------------------------
(* delete_credential and get_credential *)

\* Cred::remove: self.session.search(&self.description)
RemoveSearch(t, conc) ==
    LET d == DescOf(t)
        s == Search(d)
    IN  /\ CanStart(t, conc) /\ HasCred(t)
        /\ IF s.err # "none"
           THEN /\ Finish(t, OpRes(t, "delete", FALSE, <<>>, s.err, "search", <<>>,
                                   StartFrom(d)))
                /\ UNCHANGED expect
           ELSE /\ Goto(t, "rm_invalidate", s.key, <<>>)
                /\ expect' = [expect EXCEPT ![t] = StartFrom(d)]
        /\ UNCHANGED <<separate, store, now, stores, sessionSt, persistUp, pLinked, keys, ringS, ringP, cred,
                       stable, deleted, envLeft>>

\* a get of another thread is past its search and holds serial k
FoundByGet(t, k) ==
    \E u \in Threads \ {t} :
        pc[u] \in {"get_link_s", "get_link_p", "get_read"} /\ key[u] = k

\* Cred::remove: key.invalidate()
RemoveInvalidate(t) ==
    LET d == DescOf(t)
        e == ValidateErr(key[t])
    IN  /\ res.op = "none" /\ pc[t] = "rm_invalidate"
        /\ IF e # "none"
           THEN /\ Finish(t, OpRes(t, "delete", FALSE, <<>>, e, "invalidate", <<>>,
                                   expect[t]))
                /\ expect' = [expect EXCEPT ![t] = NoExpect]
                /\ UNCHANGED <<keys, stable, deleted>>
           ELSE /\ keys' = Dead(keys, key[t], "invalid")
                /\ stable' = Minus(stable, {d})
                /\ deleted' = Minus(deleted, {d}) \cup {<<d, t, FoundByGet(t, key[t])>>}
                /\ expect' = [Disturb(expect, t, {d}, FALSE) EXCEPT ![t] = NoExpect]
                /\ Finish(t, OpRes(t, "delete", TRUE, <<>>, "none", "done", <<>>,
                                   expect[t]))
        /\ UNCHANGED <<separate, store, now, stores, sessionSt, persistUp, pLinked, ringS, ringP, cred,
                       envLeft>>

\* Cred::get_credential
GetCredential(t, conc) ==
    LET d == DescOf(t)
        s == Search(d)
    IN  /\ CanStart(t, conc) /\ HasCred(t)
        /\ CredOf(t).variant = "store"
        /\ Finish(t, OpRes(t, "get_credential", s.err = "none", <<>>, s.err,
                           IF s.err = "none" THEN "done" ELSE "search", <<>>,
                           StartFrom(d)))
        /\ UNCHANGED <<separate, store, now, stores, sessionSt, persistUp, pLinked, keys, ringS, ringP, cred,
                       expect, stable, deleted, envLeft>>

\* Cred::get_specifiers
GetSpecifiers(t) == CredOf(t).specifiers

---------------------------------------------------------------------------
(* The environment: other users of the kernel facility, time, the session *)

EnvKey(k, st) ==
    /\ res.op = "none"
    /\ envLeft > 0
    /\ keys[k].st = "valid"
    /\ keys' = Dead(keys, k, st)
    /\ envLeft' = envLeft - 1
    /\ stable' = Minus(stable, {keys[k].desc})
    /\ expect' = Disturb(expect, "env", {keys[k].desc}, FALSE)
    /\ UNCHANGED <<separate, store, now, stores, sessionSt, persistUp, pLinked, ringS, ringP, cred, pc, key,
                   arg, deleted>>
    /\ res' = NoRes

\* keyctl revoke on a key
RevokeKey(k) == EnvKey(k, "revoked")

\* the timeout of a key passes
ExpireKey(k) == EnvKey(k, "expired")

\* keyctl setperm takes the caller's permissions on a key away
DenyKey(k) == EnvKey(k, "denied")

\* the kernel garbage collector unlinks and destroys a dead key
CollectKey(k) ==
    /\ res.op = "none"
    /\ keys[k].st \in {"invalid", "revoked", "expired"}
    /\ ringS' = ringS \ {k}
    /\ ringP' = ringP \ {k}
    /\ keys' = Reap(keys, ringS', ringP')
    /\ UNCHANGED <<separate, store, now, stores, sessionSt, persistUp, pLinked, cred, pc, key, arg,
                   expect, stable, deleted, envLeft>>
    /\ res' = NoRes

\* the persistent keyring expires; a later get_persistent makes a new one
ExpirePersistent ==
    /\ res.op = "none"
    /\ envLeft > 0
    /\ persistUp
    /\ pLinked \/ ringP # {}
    /\ ringP' = {}
    /\ pLinked' = FALSE
    /\ keys' = Reap(keys, ringS, {})
    /\ cred' = [t \in Threads |->
                  IF HasCred(t) /\ CredOf(t).persistent = "live"
                  THEN Some([CredOf(t) EXCEPT !.persistent = "stale"])
                  ELSE cred[t]]
    /\ envLeft' = envLeft - 1
    /\ stable' = {}
    /\ expect' = Disturb(expect, "env", AllDescs, FALSE)
    /\ UNCHANGED <<separate, store, now, stores, sessionSt, persistUp, ringS, pc, key, arg, deleted>>
    /\ res' = NoRes

\* keyctl revoke on the session keyring
RevokeSession ==
    /\ res.op = "none"
    /\ envLeft > 0
    /\ sessionSt = "ok"
    /\ sessionSt' = "KeyRevoked"
    /\ envLeft' = envLeft - 1
    /\ stable' = {}
    /\ expect' = Disturb(expect, "env", AllDescs, FALSE)
    /\ UNCHANGED <<separate, store, now, stores, persistUp, pLinked, keys, ringS, ringP, cred, pc, key, arg,
                   deleted>>
    /\ res' = NoRes

\* the kernel starts to fail every use of the session keyring with error e
SessionFails(e) ==
    /\ res.op = "none"
    /\ envLeft > 0
    /\ sessionSt = "ok"
    /\ sessionSt' = e
    /\ envLeft' = envLeft - 1
    /\ stable' = {}
    /\ expect' = Disturb(expect, "env", AllDescs, FALSE)
    /\ UNCHANGED <<separate, store, now, stores, persistUp, pLinked, keys, ringS, ringP, cred, pc, key, arg,
                   deleted>>
    /\ res' = NoRes

\* log out and in again: the processes end, the session keyring is a new one
Relogin ==
    /\ res.op = "none"
    /\ envLeft > 0
    /\ \A t \in Threads : pc[t] = "idle"
    /\ \E t \in Threads : HasCred(t)
    /\ sessionSt' = "ok"
    /\ ringS' = {}
    /\ pLinked' = FALSE
    /\ keys' = Reap(keys, {}, ringP)
    /\ cred' = [t \in Threads |-> None]
    /\ res' = NoRes
    /\ envLeft' = envLeft - 1
    /\ stable' = {}
    /\ UNCHANGED <<separate, store, now, stores, persistUp, ringP, pc, key, arg, expect, deleted>>

---------------------------------------------------------------------------
(* Stores *)

DefaultPrefix == KeyringPrefix
DefaultDivider == At
DefaultSuffix == <<>>

\* Store::new
StoreNew ==
    [delimiters |-> <<DefaultPrefix, DefaultDivider, DefaultSuffix>>,
     service_no_divider |-> FALSE]

OrElse(o, dflt) == IF IsSome(o) THEN Unwrap(o) ELSE dflt

\* Store::new_with_configuration; the flag is the text "true", "false", ...
NewWithConfiguration(config) ==
    [delimiters |-> <<OrElse(config.prefix, DefaultPrefix),
                      OrElse(config.divider, DefaultDivider),
                      OrElse(config.suffix, DefaultSuffix)>>,
     service_no_divider |-> OrElse(config.service_no_divider, "false") = "true"]

Configs ==
    [prefix : {None, Some(<<>>), Some(<<"a">>)},
     divider : {None} \cup {Some(d) : d \in StrsUpTo(MaxLen)},
     suffix : {None, Some(<<"a">>)},
     service_no_divider : {None, Some("true"), Some("false")}]

Targets == {None, Some(<<>>), Some(<<"a", "@">>)}

\* UNIX_EPOCH on the scale of the clock
UnixEpoch == 0

\* the clock readings that one f64 number of seconds stands for
F64Grain == 2

\* the distance of clock reading t from the epoch, before or after it
Elapsed(t) == IF t < UnixEpoch THEN UnixEpoch - t ELSE t - UnixEpoch

\* Duration::as_secs_f64: the nearest f64, which nearby durations share
AsSecsF64(d) == d \div F64Grain

\* Store::new_internal: the instance of configuration s made at reading `now`
NewInternal(s) ==
    [id |-> <<"Crate version", "Instantiated at", AsSecsF64(Elapsed(now))>>,
     delimiters |-> s.delimiters,
     service_no_divider |-> s.service_no_divider]

\* the string Store::vendor returns
Vendor == "Linux keyutils, https://crates.io/crates/linux-keyutils-keyring-store"

\* the configurations the instances are constructed from
StoreConfigs ==
    {[prefix |-> None, divider |-> None, suffix |-> None, service_no_divider |-> None],
     [prefix |-> Some(<<"a">>), divider |-> None, suffix |-> None,
      service_no_divider |-> Some("true")]}

\* Store::new or Store::new_with_configuration constructs an instance
StoreConstruct(s) ==
    /\ res.op = "none"
    /\ Len(stores) < MaxStores
    /\ stores' = Append(stores, NewInternal(s))
    /\ UNCHANGED <<separate, store, now, sessionSt, persistUp, pLinked, keys, ringS, ringP,
                   cred, pc, key, arg, res, expect, stable, deleted, envLeft>>

\* the system clock moves, forward as time passes or to wherever it is set
ClockMoves ==
    /\ res.op = "none"
    /\ \E t \in (0 - MaxClock)..MaxClock : t # now /\ now' = t
    /\ UNCHANGED <<separate, store, stores, sessionSt, persistUp, pLinked, keys, ringS,
                   ringP, cred, pc, key, arg, res, expect, stable, deleted, envLeft>>

\* Store::id of the i-th instance
StoreId(i) ==
    /\ res.op = "none"
    /\ res' = [NoRes EXCEPT !.op = "id", !.ok = TRUE, !.val = stores[i].id, !.in = <<i>>]
    /\ UNCHANGED <<separate, store, now, stores, sessionSt, persistUp, pLinked, keys, ringS,
                   ringP, cred, pc, key, arg, expect, stable, deleted, envLeft>>

\* Store::vendor of the i-th instance
StoreVendor(i) ==
    /\ res.op = "none"
    /\ res' = [NoRes EXCEPT !.op = "vendor", !.ok = TRUE, !.val = Vendor, !.in = <<i>>]
    /\ UNCHANGED <<separate, store, now, stores, sessionSt, persistUp, pLinked, keys, ringS,
                   ringP, cred, pc, key, arg, expect, stable, deleted, envLeft>>

---------------------------------------------------------------------------
(* Specifications *)

\* the description the default store derives for service "a", user "u"
DescA == Concat5(DefaultPrefix, <<"u">>, DefaultDivider, <<"a">>, DefaultSuffix)

\* no key exists
InitNoKey ==
    /\ keys = [k \in KeyIds |-> FreeKey]
    /\ ringP = {}

\* the state a set of <<0>> for DescA and a log-out and log-in leave behind:
\* the key linked in the persistent keyring alone
InitAfterRelogin ==
    /\ persistUp
    /\ keys = [k \in KeyIds |->
                 IF k = 1 THEN [desc |-> DescA, val |-> <<0>>, st |-> "valid"]
                 ELSE FreeKey]
    /\ ringP = {1}

InitRest ==
    /\ pLinked = FALSE
    /\ ringS = {}
    /\ cred = [t \in Threads |-> None]
    /\ pc = [t \in Threads |-> "idle"]
    /\ key = [t \in Threads |-> 0]
    /\ arg = [t \in Threads |-> <<>>]
    /\ res = NoRes
    /\ expect = [t \in Threads |-> NoExpect]
    /\ stable = {}
    /\ deleted = {}
    /\ now = 0
    /\ stores = <<>>

MainServices == {<<"a">>}
MainUsers == {<<"u">>}
Secrets == {<<>>, <<0>>, <<255, 0>>}

Init ==
    /\ separate = FALSE
    /\ store = StoreNew
    /\ sessionSt = "ok"
    /\ persistUp \in BOOLEAN
    /\ InitNoKey \/ InitAfterRelogin
    /\ InitRest
    /\ envLeft = MaxEnv

\* the inputs each thread builds its record from
BuildStoreInputs(t) ==
    IF t = "t1" THEN {None, Some(<<>>)}
    ELSE IF separate THEN {}
    ELSE {Some(DescA)}
BuildLegacyInputs(t) == IF t = "t1" THEN {} ELSE {None, Some(<<>>)}

Build(t, conc) ==
    \E service \in MainServices, user \in MainUsers :
        \/ \E target \in BuildStoreInputs(t) :
              BuildFromSpecifiers(t, target, service, user, conc)
        \/ \E target \in BuildLegacyInputs(t) :
              KeyutilsCredentialNew(t, target, service, user, conc)

Calls(conc) ==
    \E t \in Threads :
        \/ Build(t, conc)
        \/ \E secret \in Secrets : SetSecret(t, secret, conc)
        \/ SetLink(t)
        \/ GetSearch(t, conc)
        \/ GetLinkSession(t)
        \/ GetLinkPersistent(t)
        \/ GetRead(t)
        \/ RemoveSearch(t, conc)
        \/ RemoveInvalidate(t)
        \/ GetCredential(t, conc)

CollectKeys == \E k \in KeyIds : CollectKey(k)

Environment ==
    \/ \E k \in KeyIds :
          \/ RevokeKey(k)
          \/ ExpireKey(k)
          \/ DenyKey(k)
    \/ CollectKeys
    \/ ExpirePersistent
    \/ RevokeSession
    \/ Relogin

\* the caller takes the result of the call that returned
TakeResult ==
    /\ res.op # "none"
    /\ res' = NoRes
    /\ UNCHANGED <<separate, store, now, stores, sessionSt, persistUp, pLinked, keys, ringS, ringP, cred, pc,
                   key, arg, expect, stable, deleted, envLeft>>

\* the calls of the threads one after the other, the environment at any time
Next == Calls(FALSE) \/ Environment \/ TakeResult

Spec == Init /\ [][Next]_vars

\* the calls of the threads interleaved step by step
NextConc == Calls(TRUE) \/ CollectKeys \/ TakeResult

\* the threads alone, the environment still
InitConc ==
    /\ separate \in BOOLEAN
    /\ store = StoreNew
    /\ sessionSt = "ok"
    /\ persistUp \in BOOLEAN
    /\ InitNoKey \/ InitAfterRelogin
    /\ InitRest
    /\ envLeft = 0

SpecConc == InitConc /\ [][NextConc]_vars

\* the builders alone, over every store configuration and input
SessionStates == {"ok", "KeyDoesNotExist", "KeyRevoked", "OutOfMemory"}

InitBuild ==
    /\ separate = FALSE
    /\ store \in {NewWithConfiguration(c) : c \in Configs}
    /\ sessionSt \in SessionStates
    /\ persistUp \in BOOLEAN
    /\ InitNoKey
    /\ InitRest
    /\ envLeft = MaxEnv

NextBuild ==
    /\ res.op = "none"
    /\ \E target \in Targets, service \in StrsUpTo(MaxLen), user \in StrsUpTo(MaxLen) :
           \/ BuildFromSpecifiers("t1", target, service, user, FALSE)
           \/ KeyutilsCredentialNew("t1", target, service, user, FALSE)

SpecBuild == InitBuild /\ [][NextBuild]_vars

\* the calls one after the other while the kernel may start to fail with
\* any of its errors
NextErr == Calls(FALSE) \/ (\E e \in KernelErrors : SessionFails(e)) \/ TakeResult

SpecErr == Init /\ [][NextErr]_vars

\* a persistence that depends on the configuration of the instance
PersistenceByConfiguration(s) ==
    IF s.service_no_divider THEN "ProcessOnly" ELSE "UntilReboot"

\* Store::persistence of instance s
PersistenceOf(s) == "UntilReboot"

\* KeyutilsCredentialBuilder::persistence
BuilderPersistenceValue == "UntilReboot"

\* Store::persistence of the i-th instance
StorePersistence(i) ==
    /\ res.op = "none"
    /\ res' = [NoRes EXCEPT !.op = "persistence", !.ok = TRUE,
                            !.val = PersistenceOf(stores[i]), !.in = <<"store", i>>]
    /\ UNCHANGED <<separate, store, now, stores, sessionSt, persistUp, pLinked, keys, ringS,
                   ringP, cred, pc, key, arg, expect, stable, deleted, envLeft>>

\* KeyutilsCredentialBuilder::persistence
BuilderPersistence ==
    /\ res.op = "none"
    /\ res' = [NoRes EXCEPT !.op = "persistence", !.ok = TRUE,
                            !.val = BuilderPersistenceValue, !.in = <<"legacy", 0>>]
    /\ UNCHANGED <<separate, store, now, stores, sessionSt, persistUp, pLinked, keys, ringS,
                   ringP, cred, pc, key, arg, expect, stable, deleted, envLeft>>

\* the stores alone: instances are constructed and asked for id and vendor
\* while the clock moves
InitStore ==
    /\ separate = FALSE
    /\ store = StoreNew
    /\ sessionSt = "ok"
    /\ persistUp = TRUE
    /\ InitNoKey
    /\ InitRest
    /\ envLeft = 0

NextStore ==
    \/ \E s \in {StoreNew} \cup {NewWithConfiguration(c) : c \in StoreConfigs} :
          StoreConstruct(s)
    \/ ClockMoves
    \/ \E i \in 1..Len(stores) : StoreId(i) \/ StoreVendor(i) \/ StorePersistence(i)
    \/ BuilderPersistence
    \/ TakeResult

SpecStore == InitStore /\ [][NextStore]_vars

---------------------------------------------------------------------------
(* Properties of the builders (under SpecBuild) *)

\* the build that returned in the last step, and its inputs
Built(variant) == res.op = "build" /\ res.in[1] = variant
BuiltTarget == res.in[2]
BuiltService == res.in[3]
BuiltUser == res.in[4]

\* the description the inputs of the build that returned ask for
AskedDescription ==
    IF IsSome(BuiltTarget) THEN Unwrap(BuiltTarget)
    ELSE IF res.in[1] = "store"
    THEN Concat5(store.delimiters[1], BuiltUser, store.delimiters[2], BuiltService,
                 store.delimiters[3])
    ELSE Concat5(LegacyPrefix, BuiltUser, At, BuiltService, <<>>)

\* C9: a build by a store with service_no_divider = true, with no explicit
\* description and a service that contains the store's divider, fails with
\* Invalid; an empty divider is contained in every service.
C9_ServiceWithDividerIsInvalid ==
    (/\ Built("store")
     /\ store.service_no_divider
     /\ ~IsSome(BuiltTarget)
     /\ \/ store.delimiters[2] = <<>>
        \/ \E i \in 1..Len(BuiltService), j \in 1..Len(BuiltService) :
              SubSeq(BuiltService, i, j) = store.delimiters[2])
    => (~res.ok /\ res.err.kind = "Invalid" /\ cred[res.t] = None)

\* C9: such a build with the empty divider and a service of one character
C9_Witness ==
    /\ Built("store")
    /\ store.service_no_divider
    /\ store.delimiters[2] = <<>>
    /\ BuiltTarget = None
    /\ BuiltService = <<"a">>
    /\ res.err = Invalid("service")

\* C5: under service_no_divider = true a record built with no explicit
\* description has a description that no other (service, user) pair the store
\* builds a record from is given.
C5_DifferentPairsDifferentDescriptions ==
    (Built("store") /\ res.ok /\ store.service_no_divider /\ ~IsSome(BuiltTarget))
    => \A service \in StrsUpTo(MaxLen), user \in StrsUpTo(MaxLen) :
          LET other == Describe(None, store.delimiters, TRUE, service, user)
          IN  (<<service, user>> # <<BuiltService, BuiltUser>> /\ other.err = NoErr)
              => other.description # res.desc

\* C10: every record built has a non-empty description, and a build that asks
\* for the empty description (an explicit empty target, or an empty prefix,
\* user, divider, service and suffix) fails with Invalid.
C10_EmptyDescriptionIsInvalid ==
    /\ \A t \in Threads : HasCred(t) => DescOf(t) # <<>>
    /\ (res.op = "build" /\ AskedDescription = <<>>)
       => (~res.ok /\ res.err.kind = "Invalid")

\* C10, the half that holds: no record has the empty description
C10_BuiltDescriptionNonEmpty ==
    /\ \A t \in Threads : HasCred(t) => DescOf(t) # <<>>
    /\ (res.op = "build" /\ res.ok) => (res.desc # <<>> /\ AskedDescription # <<>>)

\* C11: the description of a record a store built is a function of the
\* inputs of the build alone: an explicit description is taken verbatim,
\* whatever the service, the user, the delimiters and the flag are (with a
\* resolvable session keyring the build then succeeds, a service holding
\* the divider included); without one it is prefix, user, divider, service
\* and suffix in this order.
C11_DescriptionFromInputs ==
    /\ (Built("store") /\ res.ok)
       => /\ res.desc = DescOf(res.t)
          /\ IsSome(BuiltTarget) => res.desc = Unwrap(BuiltTarget)
          /\ ~IsSome(BuiltTarget)
             => res.desc = store.delimiters[1] \o BuiltUser \o store.delimiters[2]
                           \o BuiltService \o store.delimiters[3]
    /\ (Built("store") /\ IsSome(BuiltTarget) /\ Unwrap(BuiltTarget) # <<>>
        /\ sessionSt = "ok")
       => res.ok

\* C11: a store with the flag set built a record with an explicit
\* description from a service that holds the divider
C11_Witness ==
    /\ Built("store")
    /\ res.ok
    /\ store.service_no_divider
    /\ IsSome(BuiltTarget)
    /\ store.delimiters[2] # <<>>
    /\ Contains(BuiltService, store.delimiters[2])
    /\ BuiltUser # BuiltService
    /\ res.desc = Unwrap(BuiltTarget)

\* C11: a record with a derived description whose user and service differ
C11_WitnessDerived ==
    /\ Built("store")
    /\ res.ok
    /\ ~IsSome(BuiltTarget)
    /\ BuiltUser # BuiltService
    /\ store.delimiters[1] # <<>>

\* the inputs of the build that returned pass the validation of its builder
BuiltInputsValid ==
    IF res.in[1] = "store"
    THEN Describe(BuiltTarget, store.delimiters, store.service_no_divider,
                  BuiltService, BuiltUser).err = NoErr
    ELSE LegacyDescribe(BuiltTarget, BuiltService, BuiltUser).kerr = "none"

\* C17: with the session keyring not resolvable, a build from valid inputs
\* fails with NoStorageAccess, whatever error the resolution returned.
C17_NoSessionIsNoStorageAccess ==
    (res.op = "build" /\ sessionSt # "ok" /\ BuiltInputsValid)
    => (~res.ok /\ res.err = NoStorageAccess(sessionSt))

\* C17, the half that holds: the build of a Store
C17_StoreNoSessionIsNoStorageAccess ==
    (Built("store") /\ sessionSt # "ok" /\ BuiltInputsValid)
    => (~res.ok /\ res.err = NoStorageAccess(sessionSt) /\ cred[res.t] = None)

\* C20: the default store configuration (Store::new, or
\* new_with_configuration with no key given) matches the legacy builder: with
\* no explicit target, the default Store derives for every service and user
\* the description the legacy builder derives.
C20_DefaultMatchesLegacy ==
    /\ NewWithConfiguration([prefix |-> None, divider |-> None, suffix |-> None,
                             service_no_divider |-> None]) = StoreNew
    /\ (Built("store") /\ res.ok /\ store = StoreNew /\ ~IsSome(BuiltTarget))
       => res.desc = LegacyDescribe(None, BuiltService, BuiltUser).description
\* C28: validation of the identity inputs involves no kernel access and
\* comes before it: a build whose inputs are invalid (an empty description,
\* or a service that contains the divider under service_no_divider) fails
\* with Invalid, at the validation and not at the session keyring, also
\* when the session keyring cannot be resolved, and it does not resolve the
\* persistent keyring (which would link it beneath the session keyring).
C28_ValidationBeforeKernel ==
    /\ []((res.op = "build" /\ ~BuiltInputsValid)
          => (~res.ok /\ res.err.kind = "Invalid" /\ res.stage = "validate"))
    /\ [][(res'.op = "build" /\ ~BuiltInputsValid') => pLinked' = pLinked]_vars

\* C28, the half that holds: the build of a Store validates first
C28_StoreValidationBeforeKernel ==
    /\ []((res.op = "build" /\ res.in[1] = "store" /\ ~BuiltInputsValid)
          => (~res.ok /\ res.err.kind = "Invalid" /\ res.stage = "validate"))
    /\ [][(res'.op = "build" /\ res'.in[1] = "store" /\ ~BuiltInputsValid')
          => pLinked' = pLinked]_vars

\* a build of a Store from invalid inputs with the session keyring not
\* resolvable
C28_StoreWitness ==
    /\ res.op = "build"
    /\ res.in[1] = "store"
    /\ ~BuiltInputsValid
    /\ sessionSt # "ok"
    /\ res.err.kind = "Invalid"

\* the legacy constructor, given an empty target, has resolved the
\* persistent keyring before it fails
C28_NoLinkBeforeValidation ==
    [][(res'.op = "build" /\ ~BuiltInputsValid') => pLinked' = pLinked]_vars

---------------------------------------------------------------------------
(* Properties of set, get and delete, the calls one after the other (under Spec) *)

\* the call that returned in the last step was a lookup that failed
LookupFailed ==
    /\ res.op \in {"get", "delete", "get_credential"}
    /\ res.stage = "search"
    /\ ~res.ok

\* C1: a get_secret through a record, after a set_secret(S) through that
\* record succeeded and with no set, delete or external event on the
\* description since, returns exactly S.
C1_RoundTrip ==
    (res.op = "get" /\ IsSome(res.exp) /\ res.by = res.t)
    => (res.ok /\ res.val = Unwrap(res.exp))

\* C1: a get that returns the two bytes its own record set
C1_Witness ==
    /\ res.op = "get"
    /\ res.by = res.t
    /\ res.exp = Some(<<255, 0>>)
    /\ res.val = <<255, 0>>

\* C2: a get_secret on a description no key exists for fails with NoEntry.
C2_GetNeverSetIsNoEntry ==
    (res.op = "get" /\ res.fresh) => (~res.ok /\ res.val = <<>> /\ res.err = NoEntry)

\* C2: such a get, the session keyring resolvable
C2_Witness ==
    /\ res.op = "get"
    /\ res.fresh
    /\ sessionSt = "ok"
    /\ res.cause = "KeyDoesNotExist"
    /\ res.err = NoEntry

C4_EmptySecretInvalidNoMutation ==
    [][(res'.op = "set" /\ res'.in = <<>>)
       => (/\ ~res'.ok
           /\ res'.err.kind = "Invalid"
           /\ UNCHANGED <<keys, ringS, ringP, pLinked>>)]_vars

\* C4: an empty set refused while a valid key of the description exists
C4_Witness ==
    /\ res.op = "set"
    /\ res.in = <<>>
    /\ res.err = Invalid("secret")
    /\ \E k \in ringS : keys[k].desc = res.desc /\ keys[k].st = "valid"

\* C6: two records of one description work on one key: a get through one
\* returns the value last set through the other, and after a delete through
\* one a get and a delete through the other fail.
C6_SameDescriptionSameKey ==
    /\ (res.op = "get" /\ IsSome(res.exp) /\ res.by # res.t)
       => (res.ok /\ res.val = Unwrap(res.exp))
    /\ (res.op \in {"get", "delete"} /\ res.del /\ res.delBy # res.t)
       => ~res.ok

\* C7 as stated: a lookup that fails because the key does not exist, is
\* revoked, is expired or may not be accessed is reported as NoEntry.
C7_LookupFailureIsNoEntry ==
    (LookupFailed /\ res.cause \in {"KeyDoesNotExist", "KeyRevoked", "KeyExpired",
                                    "AccessDenied"})
    => res.err = NoEntry

\* C7, amended: through a record of a Store, a lookup that fails because the
\* key does not exist, is revoked or is expired is reported as NoEntry, and
\* one that fails because access is denied as NoStorageAccess.
C7_LookupFailureTranslation ==
    (LookupFailed /\ CredOf(res.t).variant = "store")
    => /\ res.cause \in {"KeyDoesNotExist", "KeyRevoked", "KeyExpired"}
          => res.err = NoEntry
       /\ res.cause = "AccessDenied" => res.err = NoStorageAccess("AccessDenied")
       /\ res.cause \in {"KeyDoesNotExist", "KeyRevoked", "KeyExpired", "AccessDenied"}

\* C7: a get through a record of a Store that finds the key denied
C7_Witness ==
    /\ LookupFailed
    /\ res.op = "get"
    /\ CredOf(res.t).variant = "store"
    /\ res.cause = "AccessDenied"
    /\ res.err.kind = "NoStorageAccess"

\* C12: get_specifiers() of a record a store built returns the pair (user,
\* service) exactly if the description was derived from them, and nothing
\* if it was given; set, get, delete and get_credential find the key by the
\* description of the record, with or without specifiers: the key a
\* successful call acted on bears the description of the record.
C12_SpecifiersIffDerived ==
    /\ (Built("store") /\ res.ok)
       => GetSpecifiers(res.t) = IF IsSome(BuiltTarget) THEN None
                                 ELSE Some(<<BuiltUser, BuiltService>>)
    /\ (res.op \in {"set", "get", "delete", "get_credential"} /\ res.ok)
       => \E k \in KeyIds :
             /\ keys[k].desc = DescOf(res.t)
             /\ res.op = "set" => (keys[k].st = "valid" /\ keys[k].val = res.in)
             /\ res.op = "get" => (keys[k].st = "valid" /\ keys[k].val = res.val)
             /\ res.op = "get_credential" => keys[k].st = "valid"
             /\ res.op = "delete" => keys[k].st = "invalid"

\* C12: a record with an explicit description, hence without specifiers,
\* read the secret a record with specifiers had set
C12_Witness ==
    /\ res.op = "get"
    /\ res.ok
    /\ CredOf(res.t).variant = "store"
    /\ GetSpecifiers(res.t) = None
    /\ res.by # res.t
    /\ res.by # "none"
    /\ IsSome(GetSpecifiers(res.by))
    /\ res.val = Unwrap(res.exp)

\* a valid key of description d can be found from the session keyring
ValidKeyFound(d) ==
    /\ sessionSt = "ok"
    /\ \E k \in ringS \cup (IF pLinked THEN ringP ELSE {}) :
          keys[k].desc = d /\ keys[k].st = "valid"

\* C13: get_credential() succeeds exactly if a valid key of the description
\* is found and fails with NoEntry otherwise; it yields no secret and changes
\* no key, no value and no keyring link.
C13_GetCredentialNoEntry ==
    [][(res'.op = "get_credential")
       => (/\ res'.ok <=> ValidKeyFound(res'.desc)
           /\ ~res'.ok => res'.err = NoEntry
           /\ res'.val = <<>>
           /\ UNCHANGED <<keys, ringS, ringP, pLinked>>)]_vars

\* C13, amended: get_credential() succeeds exactly if a valid key of the
\* description is found; otherwise it fails with NoEntry, or with
\* NoStorageAccess when the only key of the description found is one the
\* caller is denied access to; it yields no secret and changes no key, no
\* value and no keyring link.
C13_GetCredentialReadOnly ==
    [][(res'.op = "get_credential")
       => (/\ res'.ok <=> ValidKeyFound(res'.desc)
           /\ (~res'.ok /\ res'.cause # "AccessDenied") => res'.err = NoEntry
           /\ (~res'.ok /\ res'.cause = "AccessDenied")
              => /\ res'.err = NoStorageAccess("AccessDenied")
                 /\ \E k \in ringS \cup ringP :
                       keys[k].desc = res'.desc /\ keys[k].st = "denied"
           /\ res'.val = <<>>
           /\ UNCHANGED <<keys, ringS, ringP, pLinked>>)]_vars

\* C13: get_credential() succeeded on a key that only the persistent
\* keyring links
C13_Witness ==
    /\ res.op = "get_credential"
    /\ res.ok
    /\ \A k \in ringS : keys[k].desc # res.desc
    /\ \E k \in ringP : keys[k].desc = res.desc /\ keys[k].st = "valid"

\* C13: get_credential() failed on a key the caller is denied access to
C13_WitnessDenied ==
    /\ res.op = "get_credential"
    /\ ~res.ok
    /\ res.err.kind = "NoStorageAccess"

\* the keys that exist under description d, whatever their state
KeysOf(d) == {k \in KeyIds : keys[k].st # "free" /\ keys[k].desc = d}

\* C14: set_secret overwrites. After a set_secret(S2) succeeds, on a
\* description that an earlier set_secret(S1) through the same or another
\* record had succeeded on or not, exactly one key exists for the
\* description and it is valid and holds S2 (so setting a value twice leaves
\* what setting it once leaves), and a get_secret through the record of the
\* last set returns the value of that set.
C14_SetOverwrites ==
    /\ (res.op = "set" /\ res.ok)
       => /\ \E k \in ringS : KeysOf(res.desc) = {k}
                                /\ keys[k].st = "valid"
                                /\ keys[k].val = res.in
    /\ (res.op = "get" /\ IsSome(res.exp) /\ res.by = res.t)
       => /\ res.ok
          /\ res.val = Unwrap(res.exp)
          /\ \E k \in KeyIds : KeysOf(res.desc) = {k} /\ keys[k].val = res.val

\* C14: a set through one record succeeded over the value a set through
\* another record had left
C14_Witness ==
    /\ res.op = "set"
    /\ res.ok
    /\ res.by # "none"
    /\ res.by # res.t
    /\ res.fresh = FALSE
    /\ Cardinality(KeysOf(res.desc)) = 1

\* C16: a build, successful or failed, creates, modifies and links no key:
\* the keys, their values and every keyring link are as before, and a key of
\* the description exists afterwards exactly if it existed before.
C16_BuildTouchesNothing ==
    [][(res'.op = "build")
       => UNCHANGED <<keys, ringS, ringP, pLinked>>]_vars

\* C16, amended: a build, successful or failed, creates, modifies and links
\* no credential key: the keys, their values and their links in the session
\* and the persistent keyring are as before. Its one effect on the kernel is
\* the link of the persistent keyring into the session keyring, made when
\* both keyrings are resolved.
C16_BuildTouchesNoCredentialKey ==
    [][(res'.op = "build")
       => (/\ UNCHANGED <<keys, ringS, ringP>>
           /\ pLinked' = (pLinked \/ (persistUp /\ sessionSt = "ok"
                                        /\ (res'.ok \/ res'.in[1] = "legacy"))))]_vars

\* C16: a build succeeded for a description whose key exists, and the
\* persistent keyring, which links that key, is now linked into the session
\* keyring
C16_Witness ==
    /\ res.op = "build"
    /\ res.ok
    /\ pLinked
    /\ ringS = {}
    /\ \E k \in ringP : keys[k].desc = res.desc /\ keys[k].st = "valid"

\* C18: when the persistent keyring cannot be resolved, a build from valid
\* inputs with the session keyring resolved succeeds and binds no persistent
\* keyring, and set, get and delete through the record go through the
\* session keyring alone: no step links into a persistent keyring, no call
\* fails at one, a set of a non-empty secret fails only for the session
\* keyring, a key the caller is denied or the quota, and a get after the
\* record's own set returns the secret.
C18_NoPersistentSessionAlone ==
    ~persistUp
    => /\ (res.op = "build" /\ BuiltInputsValid /\ sessionSt = "ok")
          => (res.ok /\ HasCred(res.t) /\ ~HasPersistent(res.t))
       /\ \A t \in Threads : HasCred(t) => ~HasPersistent(t)
       /\ \A t \in Threads : pc[t] \notin {"set_link", "get_link_p"}
       /\ ringP = {} /\ ~pLinked
       /\ res.stage # "link_p"
       /\ (res.op = "set" /\ res.in # <<>> /\ sessionSt = "ok"
           /\ res.cause \notin {"AccessDenied", "QuotaExceeded"})
          => res.ok
       /\ (res.op = "get" /\ IsSome(res.exp) /\ res.by = res.t)
          => (res.ok /\ res.val = Unwrap(res.exp))
       /\ (res.op = "delete" /\ IsSome(res.exp)) => res.ok

\* C18: a record built without a persistent keyring read back its secret
C18_Witness ==
    /\ ~persistUp
    /\ res.op = "get"
    /\ res.ok
    /\ ~HasPersistent(res.t)
    /\ res.by = res.t
    /\ res.val = <<255, 0>>
    /\ ringP = {}

\* the key that holds the secret of the call that returned, linked where the
\* record of the call links it
LinkedWhereBound(v) ==
    \E k \in ringS :
        /\ keys[k].desc = res.desc
        /\ keys[k].st = "valid"
        /\ keys[k].val = v
        /\ CredOf(res.t).persistent = "live" => k \in ringP

\* C22: after every get that returns a secret, and after every set that
\* succeeds, the key is linked in the session keyring and, if the record has
\* a persistent keyring bound, in that keyring; get makes the two links, the
\* session keyring first, before it reads: where it goes on to the second
\* link or to the read, the key it holds, while valid, is linked.
C22_LinkRepair ==
    /\ (res.op = "get" /\ res.ok) => LinkedWhereBound(res.val)
    /\ (res.op = "set" /\ res.ok) => LinkedWhereBound(res.in)
    /\ \A t \in Threads :
          /\ (pc[t] \in {"get_link_p", "get_read"} /\ keys[key[t]].st = "valid")
             => key[t] \in ringS
          /\ (pc[t] = "get_read" /\ keys[key[t]].st = "valid"
              /\ CredOf(t).persistent = "live")
             => key[t] \in ringP

\* C22, the links alone, for calls that interleave (under SpecConc)
C22_LinkRepairInterleaved ==
    (res.op \in {"get", "set"} /\ res.ok)
    => \E k \in ringS :
          /\ keys[k].desc = res.desc
          /\ keys[k].st = "valid"
          /\ CredOf(res.t).persistent = "live" => k \in ringP

\* C22: a get returned the secret of a key that had survived a log-out in
\* the persistent keyring alone, and the key is linked in both keyrings
C22_Witness ==
    /\ res.op = "get"
    /\ res.ok
    /\ res.exp = None
    /\ res.val = <<0>>
    /\ CredOf(res.t).persistent = "live"
    /\ \E k \in ringS \cap ringP : keys[k].desc = res.desc /\ keys[k].val = <<0>>

\* the valid key of description d that a search from the session keyring finds
FoundKey(d) == Search(d).key

\* C23: whenever a valid key of the description can be found from the
\* session keyring, get_secret() succeeds and returns its secret, be the key
\* linked in the persistent keyring alone, in the session keyring alone, the
\* persistent keyring the record bound having expired, or in both.
C23_GetFindsValidKey ==
    (res.op = "get" /\ ValidKeyFound(res.desc))
    => (res.ok /\ res.val = keys[FoundKey(res.desc)].val)

\* C23, the part that holds: through a record whose persistent keyring has
\* not expired
C23_GetFindsValidKeyUnlessStale ==
    (res.op = "get" /\ ValidKeyFound(res.desc) /\ CredOf(res.t).persistent # "stale")
    => (res.ok /\ res.val = keys[FoundKey(res.desc)].val)

\* C24: a set_secret that returns an error leaves the key of the description
\* as it was: the secret that could be found before the call can still be
\* found, and if none could, none can; the set whose add_key succeeds and
\* whose link into the persistent keyring fails included.
C24_FailedSetChangesNothing ==
    (res.op = "set" /\ ~res.ok) => PriorValue(res.desc) = res.prev

\* C24, the part that holds: a set that fails before or in add_key
C24_FailedAddChangesNothing ==
    (res.op = "set" /\ ~res.ok /\ res.stage \in {"validate", "add"})
    => PriorValue(res.desc) = res.prev

\* C24, the case it names: the set failed at the link into a persistent
\* keyring that had expired before the call, and the secret of the call has
\* replaced the earlier one
C24_FailedLinkReplacedSecret ==
    /\ res.op = "set" /\ ~res.ok /\ res.cause = "KeyExpired" /\ res.stage = "link_p"
    /\ IsSome(res.prev)
    /\ PriorValue(res.desc) = Some(res.in)
    /\ res.prev # Some(res.in)

---------------------------------------------------------------------------
(* Properties of the calls of the threads interleaved (under SpecConc) *)

\* thread t took the step, on the record it holds
Stepped(t) ==
    /\ HasCred(t)
    /\ cred'[t] = cred[t]
    /\ pc'[t] # pc[t] \/ res'.t = t

\* the step leaves the keys of the descriptions other than d as they are
OthersUntouched(d) ==
    \A k \in KeyIds :
        (keys[k].st # "free" /\ keys[k].desc # d)
        => /\ keys'[k] = keys[k]
           /\ (k \in ringS') = (k \in ringS)
           /\ (k \in ringP') = (k \in ringP)

C25_GetReturnsWholeSetValue ==
    [][/\ \A t \in Threads :
             (Stepped(t) /\ res'.t = t /\ res'.op = "get" /\ res'.ok)
             => /\ res'.val # <<>>
                /\ \E k \in KeyIds :
                      /\ keys[k].st = "valid"
                      /\ keys[k].desc = DescOf(t)
                      /\ keys[k].val = res'.val
       /\ \A k \in KeyIds :
             (keys'[k].st = "valid" /\ keys'[k] # keys[k])
             => \E t \in Threads :
                   /\ Stepped(t)
                   /\ pc[t] = "idle"
                   /\ DescOf(t) = keys'[k].desc
                   /\ keys'[k].val \in Secrets \ {<<>>}
                   /\ \/ pc'[t] = "set_link" /\ arg'[t] = keys'[k].val
                      \/ res'.t = t /\ res'.op = "set" /\ res'.ok /\ res'.in = keys'[k].val
      ]_vars

\* C25: a get returns a secret while a set or a delete of the other thread
\* on the same description is in flight
C25_Witness ==
    /\ ~separate
    /\ res.op = "get"
    /\ res.ok
    /\ \E u \in Threads \ {res.t} :
          /\ pc[u] \in {"set_link", "rm_invalidate"}
          /\ DescOf(u) = res.desc

\* C25: the get returns a value other than the one its own thread set last,
\* a set of the other thread having come in between
C25_WitnessOtherValue ==
    /\ ~separate
    /\ res.op = "get"
    /\ res.ok
    /\ \E u \in Threads \ {res.t} :
          /\ StableOf(res.desc) = Some(res.val)
          /\ StableBy(res.desc) = u
C26_WitnessInFlight ==
    /\ res.op = "get"
    /\ ~res.del
    /\ res.stage \in {"link_s", "link_p"}
    /\ res.cause = "KeyDoesNotExist"
    /\ DeletedUnderGet(res.desc)

\* after a delete that succeeded while a set was in flight, a get may find
\* the key the set has not displaced yet
C26_AfterAnyDeleteNoEntry ==
    (res.op \in {"get", "delete"} /\ res.del) => (~res.ok /\ res.err = NoEntry)
\* thread t takes a step of a get_secret
GetStep(t) ==
    /\ Stepped(t)
    /\ \/ pc[t] \in {"get_link_s", "get_link_p", "get_read"}
       \/ pc'[t] = "get_link_s"
       \/ res'.t = t /\ res'.op = "get"

\* C27: get_secret is read-only with respect to secrets: no step of a
\* get_secret, of a call that succeeds or fails, changes the value or the
\* validity of any key, and the only change it makes to kernel state is to
\* add links of the key it found to the session and persistent keyrings.
C27_GetReadOnly ==
    [][\A t \in Threads :
          GetStep(t)
          => /\ keys' = keys
             /\ ringS \subseteq ringS' /\ ringS' \subseteq ringS \cup {key[t]}
             /\ ringP \subseteq ringP' /\ ringP' \subseteq ringP \cup {key[t]}
             /\ sessionSt' = sessionSt /\ persistUp' = persistUp /\ pLinked' = pLinked
      ]_vars

\* C27, for the keys that hold a secret: no step of a get_secret changes the
\* value or the validity of a valid key of any description.
C27_GetKeepsValidKeys ==
    [][\A t \in Threads :
          GetStep(t) => \A k \in KeyIds : keys[k].st = "valid" => keys'[k] = keys[k]
      ]_vars

---------------------------------------------------------------------------
(* Properties of the translation of kernel errors (under SpecErr) *)

\* the variant of the record, or of the builder, of the call that returned
ResVariant == IF res.op = "build" THEN res.in[1] ELSE CredOf(res.t).variant

\* a call through a Store or a record of a Store returned a kernel error
KernelErrorReturned ==
    /\ res.op \in {"build", "set", "get", "delete", "get_credential"}
    /\ res.cause # "none"
    /\ ResVariant = "store"

\* C15: every kernel error that reaches the caller of build, set, get,
\* delete or get_credential arrives as one front-end error: InvalidDescription
\* as Invalid("description"), InvalidArguments as Invalid("password"), and
\* every error the translation does not list as PlatformFailure of the cause.
C15_EveryErrorTranslated ==
    KernelErrorReturned
    => /\ res.err.kind \in {"NoEntry", "NoStorageAccess", "Invalid", "PlatformFailure"}
       /\ res.cause = "InvalidDescription" => res.err = Invalid("description")
       /\ res.cause = "InvalidArguments" => res.err = Invalid("password")
       /\ res.cause \notin {"KeyDoesNotExist", "KeyRevoked", "KeyExpired", "AccessDenied",
                             "InvalidDescription", "InvalidArguments"}
          => res.err = PlatformFailure(res.cause)

\* C15, amended: a kernel error that reaches the caller of set, get, delete
\* or get_credential arrives as NoEntry (key does not exist, revoked,
\* expired), NoStorageAccess (access denied), Invalid("description"),
\* Invalid("password") or, for every other error, PlatformFailure of the
\* cause; a kernel error of build, whatever it is, arrives as NoStorageAccess
\* of the cause.
C15_ErrorTranslation ==
    KernelErrorReturned
    => IF res.op = "build" THEN res.err = NoStorageAccess(res.cause)
       ELSE /\ res.cause \in {"KeyDoesNotExist", "KeyRevoked", "KeyExpired"}
               => res.err = NoEntry
            /\ res.cause = "AccessDenied" => res.err = NoStorageAccess(res.cause)
            /\ res.cause = "InvalidDescription" => res.err = Invalid("description")
            /\ res.cause = "InvalidArguments" => res.err = Invalid("password")
            /\ res.cause \notin {"KeyDoesNotExist", "KeyRevoked", "KeyExpired",
                                  "AccessDenied", "InvalidDescription", "InvalidArguments"}
               => res.err = PlatformFailure(res.cause)

\* C15: a set through a record of a Store met a kernel out of memory
C15_Witness ==
    /\ KernelErrorReturned
    /\ res.op = "set"
    /\ res.cause = "OutOfMemory"
    /\ res.err.kind = "PlatformFailure"

\* C15: a build by a Store met a kernel out of memory
C15_WitnessBuild ==
    /\ KernelErrorReturned
    /\ res.op = "build"
    /\ res.cause = "OutOfMemory"
    /\ res.err.kind = "NoStorageAccess"

---------------------------------------------------------------------------
(* Properties of the stores (under SpecStore) *)

\* C19: id() of an instance returns the same string on every call, two
\* instances constructed separately have different ids, and vendor() returns
\* one fixed string for every instance.
C19_IdStableAndDistinct ==
    /\ res.op = "id" => res.val = stores[res.in[1]].id
    /\ res.op = "vendor" => res.val = Vendor
    /\ \A i \in 1..Len(stores), j \in 1..Len(stores) :
          i # j => stores[i].id # stores[j].id

\* C19, the half that holds: the id of an instance is fixed at its
\* construction, and the vendor is one string
C19_IdStableVendorFixed ==
    /\ [](/\ res.op = "id" => res.val = stores[res.in[1]].id
          /\ res.op = "vendor" => res.val = Vendor)
    /\ [][\A i \in 1..Len(stores) : stores'[i] = stores[i]]_vars

\* C21: persistence() of every Store instance, whatever its configuration
\* and whenever it is asked, and of the legacy builder is UntilReboot.
C21_PersistenceUntilReboot ==
    res.op = "persistence" => res.val = "UntilReboot"

\* C21: an instance with a configuration of its own, constructed at another
\* clock reading than the first one, was asked for its persistence
C21_Witness ==
    /\ res.op = "persistence"
    /\ res.in[1] = "store"
    /\ res.in[2] = 2
    /\ stores[2].service_no_divider
    /\ stores[2].id # stores[1].id
    /\ res.val = "UntilReboot"

=============================================================================
